---- MODULE Spec2Model ----
(***************************************************************************)
(* The VCP validator stub, VeraSnap/scripts/vcp_validator.py: main() parses *)
(* --input-dir, globs <input-dir>/*.json, opens and JSON-parses every      *)
(* matched file in discovery order, prints one line per file, and exits.   *)
(*                                                                         *)
(* A name is a sequence of one-character strings, a path a sequence of     *)
(* names (its components), a directory a sequence of entries in the order  *)
(* the file system lists them.  The file system is the tree under the      *)
(* working directory.  Standard output and standard error are sequences of *)
(* lines, a line being a sequence of tokens.                               *)
(***************************************************************************)
EXTENDS Integers, Sequences, FiniteSets, TLC

VARIABLES
    fs,         \* the working directory: a sequence of entries
    argv,       \* the command line: NoArg, or the value given to --input-dir
    pc,         \* the position of main()
    input_dir,  \* args.input_dir
    files,      \* the list glob.glob returned
    idx,        \* the position of the for loop in files (1-based)
    handles,    \* the paths of the files that are open
    exc,        \* the exception in flight or uncaught, "none" if there is none
    stdout,     \* the lines written to standard output
    stderr,     \* the lines written to standard error
    exit,       \* the process exit status, NoExit while the process runs
    opened,     \* history: the paths given to open(), in order
    globCount,  \* history: the number of evaluations of glob.glob
    run,        \* the number of the invocation, 1 or 2
    prev        \* what the invocation before this one left: its output and status

vars == <<fs, argv, pc, input_dir, files, idx, handles, exc, stdout, stderr,
          exit, opened, globCount, run, prev>>

-----------------------------------------------------------------------------
(* Bounds *)

\* The most entries the input directory holds.
MaxFiles == 3

-----------------------------------------------------------------------------
(* Exit statuses *)

\* return 0
ExitOk == 0
\* return 1, no file matched
ExitNoInput == 1
\* the interpreter's status for an exception that leaves main() uncaught
ExitUncaught == 1
\* argparse's status for a usage error
ExitUsage == 2

NoExit == -1
NoArg == <<"<no --input-dir>">>
NoDir == <<"<unset>">>

-----------------------------------------------------------------------------
(* Names *)

D == <<"d">>
D2 == <<"d", "2">>
DStar == <<"d", "*">>
AJson == <<"a", ".", "j", "s", "o", "n">>
BJson == <<"b", ".", "j", "s", "o", "n">>
XJson == <<"x", ".", "j", "s", "o", "n">>
NJson == <<"n", ".", "j", "s", "o", "n">>
HJson == <<".", "h", ".", "j", "s", "o", "n">>
CJsonNoDot == <<"c", "j", "s", "o", "n">>
Sub == <<"s", "u", "b">>
\* the "*.json" of line 19
StarJson == <<"*", ".", "j", "s", "o", "n">>

-----------------------------------------------------------------------------
(* The file system *)

\* What a file is to open() and json.load():
\*   "valid"    opens, decodes as UTF-8, parses as JSON
\*   "badjson"  opens, decodes, json.load raises JSONDecodeError
\*   "badutf8"  opens, reading raises UnicodeDecodeError
\*   "dir"      a directory: open() raises IsADirectoryError
File(name, kind) == [name |-> name, kind |-> kind, sub |-> <<>>]
Dir(name, listing) == [name |-> name, kind |-> "dir", sub |-> listing]
NoEntry == [name |-> <<>>, kind |-> "absent", sub |-> <<>>]

\* The entries the input directory may hold.
Entries ==
    {File(AJson, k) : k \in {"valid", "badjson", "badutf8"}}
    \cup {Dir(AJson, <<>>)}
    \cup {File(BJson, k) : k \in {"valid", "badjson"}}
    \cup {File(HJson, "badjson"), File(CJsonNoDot, "badjson")}
    \cup {Dir(Sub, <<File(NJson, "badjson")>>)}

DistinctNames(l) == \A i, j \in 1..Len(l) : l[i].name = l[j].name => i = j

Listings ==
    {l \in UNION {[1..n -> Entries] : n \in 0..MaxFiles} : DistinctNames(l)}

\* The second directory, which only a pattern can reach.
Listings2 == {<<File(XJson, k)>> : k \in {"valid", "badjson"}}

Roots ==
    {<<>>}
    \cup {<<Dir(D, l)>> : l \in Listings}
    \cup {<<Dir(D2, m), Dir(D, l)>> : l \in Listings, m \in Listings2}

\* The command lines: no --input-dir, a plain directory name (which the file
\* system may or may not hold), and a name with a wildcard in it.
Args == {NoArg, D, DStar}

RECURSIVE Lookup(_, _)
Lookup(listing, name) ==
    IF listing = <<>> THEN NoEntry
    ELSE IF Head(listing).name = name THEN Head(listing)
    ELSE Lookup(Tail(listing), name)

\* The entry a path names, NoEntry if there is none.
RECURSIVE Resolve(_, _)
Resolve(listing, p) ==
    IF p = <<>> THEN Dir(<<>>, listing)
    ELSE LET e == Lookup(listing, Head(p))
         IN  IF Len(p) = 1 THEN e
             ELSE IF e.kind = "dir" THEN Resolve(e.sub, Tail(p))
             ELSE NoEntry

Kind(p) == Resolve(fs, p).kind

-----------------------------------------------------------------------------
(* glob.glob *)

HasMagic(s) == \E i \in 1..Len(s) : s[i] \in {"*", "?", "["}

IsHidden(s) == s # <<>> /\ s[1] = "."

\* fnmatch over the wildcards * and ? (no name or pattern here holds a "[").
RECURSIVE FnMatch(_, _)
FnMatch(name, pat) ==
    IF pat = <<>> THEN name = <<>>
    ELSE IF Head(pat) = "*"
         THEN FnMatch(name, Tail(pat))
              \/ (name # <<>> /\ FnMatch(Tail(name), pat))
    ELSE IF Head(pat) = "?"
         THEN name # <<>> /\ FnMatch(Tail(name), Tail(pat))
    ELSE name # <<>> /\ Head(name) = Head(pat)
         /\ FnMatch(Tail(name), Tail(pat))

\* The names a directory lists, in listing order; none if it is no directory.
ListDir(dirpath, dironly) ==
    LET e == Resolve(fs, dirpath)
        Keep(x) == ~dironly \/ x.kind = "dir"
        kept == IF e.kind = "dir" THEN SelectSeq(e.sub, Keep) ELSE <<>>
    IN  [i \in 1..Len(kept) |-> kept[i].name]

\* glob._glob1: the names of a directory a pattern matches.
Glob1(dirpath, pat, dironly) ==
    LET Test(n) == (IsHidden(pat) \/ ~IsHidden(n)) /\ FnMatch(n, pat)
    IN  SelectSeq(ListDir(dirpath, dironly), Test)

RECURSIVE Flatten(_)
Flatten(ss) == IF ss = <<>> THEN <<>> ELSE Head(ss) \o Flatten(Tail(ss))

\* os.path.join(args.input_dir, "*.json")
Pattern(dir) == <<dir, StarJson>>

\* glob.glob(pattern): the directory part is itself globbed when it holds a
\* wildcard, and is taken as it stands otherwise.
GlobGlob(pattern) ==
    LET dirname == pattern[1]
        basename == pattern[2]
        dirs == IF HasMagic(dirname) THEN Glob1(<<>>, dirname, TRUE)
                ELSE <<dirname>>
        In(d) == LET ns == Glob1(<<d>>, basename, FALSE)
                 IN  [i \in 1..Len(ns) |-> <<d, ns[i]>>]
    IN  Flatten([i \in 1..Len(dirs) |-> In(dirs[i])])

-----------------------------------------------------------------------------
(* Output *)

RECURSIVE PathStr(_)
\* The text of a path: its components joined by "/".
PathStr(p) ==
    IF p = <<>> THEN <<>>
    ELSE IF Len(p) = 1 THEN p[1]
    ELSE p[1] \o <<"/">> \o PathStr(Tail(p))

\* f"OK: {path}"
OkLine(p) == <<"OK: ">> \o PathStr(p)
\* Mutant: the message without the directory (the f prefix left off).
NoFilesLine_NoDir(dir) == <<"No proof JSON files found in: ">>

\* f"No proof JSON files found in: {args.input_dir}"
NoFilesLine(dir) == <<"No proof JSON files found in: ">> \o dir

UsageLine == <<"usage: the following arguments are required: --input-dir">>
Traceback(e) == <<"Traceback: ", e>>

IsOkLine(l) == l # <<>> /\ l[1] = "OK: "
IsNoFilesLine(l) == l # <<>> /\ l[1] = "No proof JSON files found in: "

-----------------------------------------------------------------------------
(* main() *)

NoPrev == [stdout |-> <<>>, exit |-> NoExit]

Init ==
    /\ fs \in Roots
    /\ argv \in Args
    /\ pc = "start"
    /\ input_dir = NoDir
    /\ files = <<>>
    /\ idx = 0
    /\ handles = {}
    /\ exc = "none"
    /\ stdout = <<>>
    /\ stderr = <<>>
    /\ exit = NoExit
    /\ opened = <<>>
    /\ globCount = 0
    /\ run = 1
    /\ prev = NoPrev

\* Mutant: --input-dir with a default instead of required=True.
ParseArgs_Default ==
    /\ pc = "start"
    /\ input_dir' = IF argv = NoArg THEN D ELSE argv
    /\ pc' = "glob"
    /\ UNCHANGED <<fs, argv, files, idx, handles, exc, stdout, stderr, exit,
                   opened, globCount, run, prev>>

\* Lines 15-17: parser.parse_args().  Without --input-dir argparse writes the
\* usage to standard error and exits.
ParseArgs ==
    /\ pc = "start"
    /\ IF argv = NoArg
       THEN /\ stderr' = Append(stderr, UsageLine)
            /\ exit' = ExitUsage
            /\ pc' = "exited"
            /\ UNCHANGED input_dir
       ELSE /\ input_dir' = argv
            /\ pc' = "glob"
            /\ UNCHANGED <<stderr, exit>>
    /\ UNCHANGED <<fs, argv, files, idx, handles, exc, stdout, opened,
                   globCount, run, prev>>

\* Lines 19-20: files = glob.glob(os.path.join(args.input_dir, "*.json"))
Glob ==
    /\ pc = "glob"
    /\ files' = GlobGlob(Pattern(input_dir))
    /\ globCount' = globCount + 1
    /\ pc' = "check"
    /\ UNCHANGED <<fs, argv, input_dir, idx, handles, exc, stdout, stderr,
                   exit, opened, run, prev>>

\* Mutant: the message is printed and the return 1 is missing.
CheckFiles_NoReturn ==
    /\ pc = "check"
    /\ stdout' = IF files = <<>> THEN Append(stdout, NoFilesLine(input_dir))
                 ELSE stdout
    /\ idx' = 1
    /\ pc' = "for"
    /\ UNCHANGED <<fs, argv, input_dir, files, handles, exc, stderr, exit,
                   opened, globCount, run, prev>>

\* Lines 21-23: if not files: print(...); return 1
CheckFiles ==
    /\ pc = "check"
    /\ IF files = <<>>
       THEN /\ stdout' = Append(stdout, NoFilesLine(input_dir))
            /\ exit' = ExitNoInput
            /\ pc' = "exited"
            /\ UNCHANGED idx
       ELSE /\ idx' = 1
            /\ pc' = "for"
            /\ UNCHANGED <<stdout, exit>>
    /\ UNCHANGED <<fs, argv, input_dir, files, handles, exc, stderr, opened,
                   globCount, run, prev>>

\* Mutant: the loop stops one path short.
ForNext_OffByOne ==
    /\ pc = "for"
    /\ IF idx < Len(files)
       THEN /\ pc' = "open"
            /\ UNCHANGED exit
       ELSE /\ exit' = ExitOk
            /\ pc' = "exited"
    /\ UNCHANGED <<fs, argv, input_dir, files, idx, handles, exc, stdout,
                   stderr, opened, globCount, run, prev>>

\* Lines 26 and 31: the next path of the for loop, or return 0 after the last.
ForNext ==
    /\ pc = "for"
    /\ IF idx <= Len(files)
       THEN /\ pc' = "open"
            /\ UNCHANGED exit
       ELSE /\ exit' = ExitOk
            /\ pc' = "exited"
    /\ UNCHANGED <<fs, argv, input_dir, files, idx, handles, exc, stdout,
                   stderr, opened, globCount, run, prev>>

RECURSIVE SetKind(_, _, _)
\* A directory listing with the kind of the file at a path replaced.
SetKind(listing, p, k) ==
    [i \in 1..Len(listing) |->
        IF listing[i].name # Head(p) THEN listing[i]
        ELSE IF Len(p) = 1 THEN [listing[i] EXCEPT !.kind = k]
        ELSE [listing[i] EXCEPT !.sub = SetKind(@, Tail(p), k)]]

\* Mutant: the file is opened with mode "w", which empties it.
Open_WriteMode ==
    /\ pc = "open"
    /\ opened' = Append(opened, files[idx])
    /\ IF Kind(files[idx]) \in {"dir", "absent"}
       THEN /\ exc' = "OSError"
            /\ stderr' = Append(stderr, Traceback("OSError"))
            /\ exit' = ExitUncaught
            /\ pc' = "exited"
            /\ UNCHANGED <<handles, fs>>
       ELSE /\ handles' = handles \cup {files[idx]}
            /\ fs' = SetKind(fs, files[idx], "badjson")
            /\ pc' = "load"
            /\ UNCHANGED <<exc, stderr, exit>>
    /\ UNCHANGED <<argv, input_dir, files, idx, stdout, globCount, run, prev>>

\* Mutant: a path that cannot be opened is tried again.
Open_Retry ==
    /\ pc = "open"
    /\ opened' = Append(opened, files[idx])
    /\ IF Kind(files[idx]) \in {"dir", "absent"}
       THEN /\ IF Len(opened) < 2 * MaxFiles
               THEN /\ pc' = "open"
                    /\ UNCHANGED <<exc, stderr, exit>>
               ELSE /\ exc' = "OSError"
                    /\ stderr' = Append(stderr, Traceback("OSError"))
                    /\ exit' = ExitUncaught
                    /\ pc' = "exited"
            /\ UNCHANGED handles
       ELSE /\ handles' = handles \cup {files[idx]}
            /\ pc' = "load"
            /\ UNCHANGED <<exc, stderr, exit>>
    /\ UNCHANGED <<fs, argv, input_dir, files, idx, stdout, globCount, run,
                   prev>>

\* Line 27: open(path, "r", encoding="utf-8").  A path that cannot be opened
\* raises OSError before the with block is entered; nothing catches it.
Open ==
    /\ pc = "open"
    /\ opened' = Append(opened, files[idx])
    /\ IF Kind(files[idx]) \in {"dir", "absent"}
       THEN /\ exc' = "OSError"
            /\ stderr' = Append(stderr, Traceback("OSError"))
            /\ exit' = ExitUncaught
            /\ pc' = "exited"
            /\ UNCHANGED handles
       ELSE /\ handles' = handles \cup {files[idx]}
            /\ pc' = "load"
            /\ UNCHANGED <<exc, stderr, exit>>
    /\ UNCHANGED <<fs, argv, input_dir, files, idx, stdout, globCount, run,
                   prev>>

\* Line 28: json.load(f) reads the whole file, decodes it and parses it.
Load ==
    /\ pc = "load"
    /\ exc' = CASE Kind(files[idx]) = "badutf8" -> "UnicodeDecodeError"
                [] Kind(files[idx]) = "badjson" -> "JSONDecodeError"
                [] OTHER -> "none"
    /\ pc' = "withexit"
    /\ UNCHANGED <<fs, argv, input_dir, files, idx, handles, stdout, stderr,
                   exit, opened, globCount, run, prev>>

\* Mutant: the exception of a bad file is caught and the loop goes on.
WithExit_Continue ==
    /\ pc = "withexit"
    /\ handles' = handles \ {files[idx]}
    /\ IF exc = "none"
       THEN /\ pc' = "print"
            /\ UNCHANGED <<stderr, idx>>
       ELSE /\ stderr' = Append(stderr, Traceback(exc))
            /\ idx' = idx + 1
            /\ pc' = "for"
    /\ UNCHANGED <<fs, argv, input_dir, files, exc, stdout, exit, opened,
                   globCount, run, prev>>

\* Mutant: open() without the with block, close() only after a good parse.
WithExit_Leak ==
    /\ pc = "withexit"
    /\ IF exc = "none"
       THEN /\ handles' = handles \ {files[idx]}
            /\ pc' = "print"
            /\ UNCHANGED <<stderr, exit>>
       ELSE /\ stderr' = Append(stderr, Traceback(exc))
            /\ exit' = ExitUncaught
            /\ pc' = "exited"
            /\ UNCHANGED handles
    /\ UNCHANGED <<fs, argv, input_dir, files, idx, exc, stdout, opened,
                   globCount, run, prev>>

\* Lines 27-28: leaving the with block closes the file, on the normal path and
\* on the way out of an exception, which then leaves main() uncaught.
WithExit ==
    /\ pc = "withexit"
    /\ handles' = handles \ {files[idx]}
    /\ IF exc = "none"
       THEN /\ pc' = "print"
            /\ UNCHANGED <<stderr, exit>>
       ELSE /\ stderr' = Append(stderr, Traceback(exc))
            /\ exit' = ExitUncaught
            /\ pc' = "exited"
    /\ UNCHANGED <<fs, argv, input_dir, files, idx, exc, stdout, opened,
                   globCount, run, prev>>

\* Mutant: the line names the first path of the list, not the current one.
PrintOk_FirstPath ==
    /\ pc = "print"
    /\ stdout' = Append(stdout, OkLine(files[1]))
    /\ idx' = idx + 1
    /\ pc' = "for"
    /\ UNCHANGED <<fs, argv, input_dir, files, handles, exc, stderr, exit,
                   opened, globCount, run, prev>>

\* Line 29: print(f"OK: {path}"), and on to the next iteration.
PrintOk ==
    /\ pc = "print"
    /\ stdout' = Append(stdout, OkLine(files[idx]))
    /\ idx' = idx + 1
    /\ pc' = "for"
    /\ UNCHANGED <<fs, argv, input_dir, files, handles, exc, stderr, exit,
                   opened, globCount, run, prev>>

\* Lines 34-35: a second invocation with the same command line.  A process
\* starts with nothing of the one before it but the file system.
Rerun ==
    /\ pc = "exited"
    /\ run = 1
    /\ run' = 2
    /\ prev' = [stdout |-> stdout, exit |-> exit]
    /\ pc' = "start"
    /\ input_dir' = NoDir
    /\ files' = <<>>
    /\ idx' = 0
    /\ handles' = {}
    /\ exc' = "none"
    /\ stdout' = <<>>
    /\ stderr' = <<>>
    /\ exit' = NoExit
    /\ opened' = <<>>
    /\ globCount' = 0
    /\ UNCHANGED <<fs, argv>>

Step ==
    \/ ParseArgs
    \/ Glob
    \/ CheckFiles
    \/ ForNext
    \/ Open
    \/ Load
    \/ WithExit
    \/ PrintOk

Next == Step

\* One invocation.
Spec == Init /\ [][Next]_vars

\* One invocation of a process that keeps running until it exits.
FairSpec == Spec /\ WF_vars(Next)

NextTwice ==
    \/ Step
    \/ Rerun

\* Two invocations, one after the other, on the same file system.
SpecTwice == Init /\ [][NextTwice]_vars

Terminal == pc = "exited"

-----------------------------------------------------------------------------
(* Vocabulary of the properties *)

\* Every matched file opens, decodes and parses.
AllParse == \A i \in 1..Len(files) : Kind(files[i]) = "valid"

\* glob.glob has returned.
Globbed == globCount >= 1

\* The position of the first matched file that fails to open, decode or parse.
FirstBad ==
    CHOOSE k \in 1..Len(files) :
        /\ Kind(files[k]) # "valid"
        /\ \A j \in 1..(k - 1) : Kind(files[j]) = "valid"

Lines == {stdout[i] : i \in 1..Len(stdout)}

\* The suffix ".json".
DotJson == <<".", "j", "s", "o", "n">>

EndsWith(s, suffix) ==
    /\ Len(s) >= Len(suffix)
    /\ SubSeq(s, Len(s) - Len(suffix) + 1, Len(s)) = suffix

NoDuplicates(s) == \A i, j \in 1..Len(s) : s[i] = s[j] => i = j

-----------------------------------------------------------------------------
(* C1 *)

\* C1: a run whose glob returned N >= 1 paths, all of which decode and parse,
\* ends with status 0 and exactly N lines on standard output, the "OK: <path>"
\* line of every matched path, each once, and of no other path.
C1_AllWellFormed ==
    (Terminal /\ Globbed /\ files # <<>> /\ AllParse) =>
        /\ exit = ExitOk
        /\ Len(stdout) = Len(files)
        /\ \A i \in 1..Len(stdout) : IsOkLine(stdout[i])
        /\ Lines = {OkLine(files[i]) : i \in 1..Len(files)}
        /\ NoDuplicates(stdout)

C1_Witness ==
    /\ Terminal
    /\ Len(files) >= 2
    /\ AllParse
    /\ exit = ExitOk
    /\ Len(stdout) = Len(files)

-----------------------------------------------------------------------------
(* C2 *)

\* The input directory does not exist, or holds no entry at all.
NoSuchDir == Kind(<<argv>>) = "absent"
EmptyDir == Kind(<<argv>>) = "dir" /\ Resolve(fs, <<argv>>).sub = <<>>

\* C2: whenever the glob returns zero paths the run ends with status 1, standard
\* output is exactly the line "No proof JSON files found in: <input-dir>" with
\* the argument verbatim, and no file is opened; a directory that does not
\* exist and an empty one both end so.
C2_NoInput ==
    /\ (Terminal /\ Globbed /\ files = <<>>) =>
            /\ exit = ExitNoInput
            /\ stdout = << <<"No proof JSON files found in: ">> \o argv >>
            /\ opened = <<>>
            /\ handles = {}
    /\ (Terminal /\ argv # NoArg /\ ~HasMagic(argv) /\ (NoSuchDir \/ EmptyDir)) =>
            /\ Globbed
            /\ files = <<>>

C2_Witness ==
    /\ Terminal
    /\ Globbed
    /\ files = <<>>
    /\ NoSuchDir
    /\ exit = ExitNoInput
    /\ Len(stdout) = 1

-----------------------------------------------------------------------------
(* C3 *)

\* A matched file fails to be read, decoded or parsed.
SomeFails == files # <<>> /\ ~AllParse

\* C3 as stated: the status is 0 exactly when at least one file was matched and
\* all of them parsed, 1 exactly when zero files were matched, and neither 0
\* nor 1 when a matched file fails.
C3_StatusIdentifiesOutcome ==
    Terminal =>
        /\ exit = 0 <=> (Globbed /\ files # <<>> /\ AllParse)
        /\ exit = 1 <=> (Globbed /\ files = <<>>)
        /\ (Globbed /\ SomeFails) => exit \notin {0, 1}

\* C3, amended: the status is 0 exactly when at least one file was matched and
\* all of them parsed; it is 1 when zero files were matched and 1 as well when
\* a matched file fails to be read, decoded or parsed (the status of an
\* uncaught exception), and in no other case.
C3_ExitStatus ==
    Terminal =>
        /\ exit = 0 <=> (Globbed /\ files # <<>> /\ AllParse)
        /\ exit = 1 <=> (Globbed /\ (files = <<>> \/ SomeFails))
        /\ (Globbed /\ SomeFails) => (exit # 0 /\ exit = ExitUncaught)

C3_Witness ==
    /\ Terminal
    /\ Globbed
    /\ SomeFails
    /\ exc = "JSONDecodeError"
    /\ exit = 1
    /\ stdout # <<>>

-----------------------------------------------------------------------------
(* C4 *)

\* C4: when the file at position k of the discovery order is the first that
\* fails to open, decode or parse, the run ends with exactly the OK lines of
\* positions 1..k-1 on standard output, in that order, and with the files after
\* position k never opened.
C4_AbortOnFirstBad ==
    (Terminal /\ Globbed /\ SomeFails) =>
        LET k == FirstBad
        IN  /\ Len(stdout) = k - 1
            /\ \A i \in 1..(k - 1) : stdout[i] = OkLine(files[i])
            /\ opened = SubSeq(files, 1, k)
            /\ exit # ExitOk
            /\ exc # "none"

C4_Witness ==
    /\ Terminal
    /\ Len(files) = 3
    /\ SomeFails
    /\ FirstBad = 2
    /\ Len(stdout) = 1
    /\ Len(opened) = 2

-----------------------------------------------------------------------------
(* C5 *)

\* A path names an immediate child of the input directory, there under a name
\* that ends in ".json".
JsonChild(p) ==
    /\ Len(p) = 2
    /\ p[1] = argv
    /\ EndsWith(p[2], DotJson)
    /\ Kind(<<argv>>) = "dir"
    /\ Lookup(Resolve(fs, <<argv>>).sub, p[2]) # NoEntry

\* C5: the only files ever opened, and the only ones an output line names, are
\* immediate children of the input directory whose name ends in ".json".
C5_OnlyJsonChildren ==
    /\ \A i \in 1..Len(opened) : JsonChild(opened[i])
    /\ \A l \in Lines :
            IsOkLine(l) =>
                \E i \in 1..Len(files) : JsonChild(files[i]) /\ l = OkLine(files[i])

-----------------------------------------------------------------------------
(* C6 *)

\* C6: a second run with the same --input-dir on the same directory contents
\* ends with the same standard output and the same status as the first, and no
\* step of a run changes the file system.
C6_Idempotent ==
    /\ [](Terminal /\ run = 2 => stdout = prev.stdout /\ exit = prev.exit)
    /\ [][fs' = fs]_vars

C6_Witness ==
    /\ Terminal
    /\ run = 2
    /\ Len(stdout) >= 1
    /\ exc # "none"
    /\ stdout = prev.stdout
    /\ exit = prev.exit

-----------------------------------------------------------------------------
(* C7 *)

\* C7: without --input-dir the run ends with a non-zero status before any
\* scanning: no glob, no file opened, nothing on standard output.
C7_UsageError ==
    argv = NoArg =>
        /\ globCount = 0
        /\ opened = <<>>
        /\ handles = {}
        /\ stdout = <<>>
        /\ pc \in {"start", "exited"}
        /\ Terminal => exit \notin {NoExit, 0}

C7_Witness ==
    /\ argv = NoArg
    /\ Terminal
    /\ exit = ExitUsage
    /\ stderr = <<UsageLine>>

-----------------------------------------------------------------------------
(* C8 *)

\* C8: at most one file is open at any point; none is open when the next file
\* is about to be opened, and none in a terminal state, abort included.
C8_OneHandle ==
    /\ Cardinality(handles) <= 1
    /\ pc \in {"load", "withexit"} => handles = {files[idx]}
    /\ pc \notin {"load", "withexit"} => handles = {}

C8_Witness ==
    /\ Terminal
    /\ exc \in {"JSONDecodeError", "UnicodeDecodeError"}
    /\ Len(opened) >= 2
    /\ handles = {}

-----------------------------------------------------------------------------
(* C9 *)

\* C9: standard output is either OK lines only or the single no-files line;
\* the OK lines follow the discovery order, and the line of a path is written
\* after that path parsed and before the next path is opened.
C9_StdoutShape ==
    /\ \/ /\ stdout = << <<"No proof JSON files found in: ">> \o input_dir >>
          /\ files = <<>>
       \/ /\ Len(stdout) <= Len(files)
          /\ \A i \in 1..Len(stdout) :
                /\ stdout[i] = <<"OK: ">> \o PathStr(files[i])
                /\ Kind(files[i]) = "valid"
                /\ opened[i] = files[i]
          /\ Len(stdout) <= Len(opened)
          /\ Len(opened) <= Len(stdout) + 1
          /\ pc = "open" => Len(opened) = Len(stdout)
    /\ (\E l \in Lines : IsNoFilesLine(l)) => \A l \in Lines : ~IsOkLine(l)

C9_Witness ==
    /\ pc = "open"
    /\ Len(stdout) = 2
    /\ Len(opened) = 2
    /\ Len(files) = 3

-----------------------------------------------------------------------------
(* C10 *)

IsPrefix(s, t) == Len(s) <= Len(t) /\ s = SubSeq(t, 1, Len(s))

====
